---- MODULE Spec2Model ----
(***************************************************************************)
(* Model of docker/purge-docker-images.py: a sequential script that reads  *)
(* the tags to keep from a list of git branches, filters the local docker  *)
(* images through keep / always-remove / only patterns, asks the operator  *)
(* for confirmation and deletes the images that lost.                      *)
(*                                                                         *)
(* Strings are sequences of characters: one-character strings, and for a   *)
(* character outside ASCII the string "U+" with its code point.  Python    *)
(* values that can be None, a bool, an int, a str or the empty list are    *)
(* records [kind, b, s, n].                                                *)
(***************************************************************************)
EXTENDS Integers, Sequences, FiniteSets, Bags, TLC

VARIABLES
    argv,             \* sys.argv: the name of the program and its arguments
    worktree,         \* the repository when the run starts: "clean", "dirty", "broken"
    all_images,       \* client.images.list(), read once at import
    args,             \* the Args object main builds
    pc,               \* main's position
    status,           \* what main returned: 1, or 0 for None; the code of a
                      \* SystemExit; NoStatus before that
    branches,         \* args.keep_from_branches.split(",")
    i,                \* index of the branch the loop of main is at
    tags_to_keep,
    tags_to_remove,
    images_to_remove,
    size_estimate,
    pending,          \* tags the loop of remove_images_by_tags has yet to visit
    attempts,         \* bag of the tags client.images.remove was called with
    removed,          \* tags whose client.images.remove returned normally
    failed,           \* tags whose client.images.remove raised an Exception, logged
    pruned,           \* number of calls of client.images.prune
    confirmed,        \* input() has returned
    diffs,            \* number of git diff subprocesses started
    checkouts,        \* number of git checkout subprocesses started
    discoveries,      \* number of discovery subprocesses started
    printed,          \* every line the discovery command printed so far
    failedAt          \* subprocesses started when the first one exited non-zero,
                      \* 0 when none has

vars == <<argv, worktree, all_images, args, pc, status, branches, i, tags_to_keep,
          tags_to_remove, images_to_remove, size_estimate, pending, attempts,
          removed, failed, pruned, confirmed, diffs, checkouts, discoveries, printed, failedAt>>

-----------------------------------------------------------------------------
(* Bounds of the model *)

MaxImages == 2
MaxTagsPerImage == 2
MaxBranches == 2
MaxLines == 2
MaxSize == 2

-----------------------------------------------------------------------------
(* Python values *)

PyNone == [kind |-> "none", b |-> FALSE, s |-> <<>>, n |-> 0]
PyBool(b) == [kind |-> "bool", b |-> b, s |-> <<>>, n |-> 0]
PyStr(s) == [kind |-> "str", b |-> FALSE, s |-> s, n |-> 0]
PyInt(n) == [kind |-> "int", b |-> FALSE, s |-> <<>>, n |-> n]
\* The empty list.
PyList == [kind |-> "list", b |-> FALSE, s |-> <<>>, n |-> 0]

\* Python's truth value: None, "", 0 and [] are false, as is False.
Truthy(v) ==
    CASE v.kind = "none" -> FALSE
      [] v.kind = "bool" -> v.b
      [] v.kind = "str" -> Len(v.s) > 0
      [] v.kind = "int" -> v.n # 0
      [] v.kind = "list" -> FALSE

NL == "\n"
NoStatus == 0 - 1

RangeOf(s) == {s[k] : k \in 1..Len(s)}

-----------------------------------------------------------------------------
(* Command line *)

\* str.startswith
StartsWith(s, prefix) == Len(prefix) <= Len(s) /\ SubSeq(s, 1, Len(prefix)) = prefix

\* The place of the first c of s, 0 when s holds none.
Find(s, c) ==
    IF c \in RangeOf(s)
    THEN CHOOSE k \in 1..Len(s) : s[k] = c /\ \A j \in 1..(k - 1) : s[j] # c
    ELSE 0

\* [arg for arg in call_args[1:] if arg]: the name of the program and every
\* empty argument are dropped.
NonEmptyArgs(call_args) == SelectSeq(Tail(call_args), LAMBDA arg : arg # <<>>)

\* The long option strings of the parser by destination: the seven of
\* build_arg_parser and the --help that ArgumentParser adds with -h.
OptionStrings ==
    [repo_location |->
        <<"-", "-", "r", "e", "p", "o", "-", "l", "o", "c", "a", "t", "i", "o", "n">>,
     list_images_cmd |->
        <<"-", "-", "l", "i", "s", "t", "-", "i", "m", "a", "g", "e", "s", "-", "c", "m", "d">>,
     keep_from_branches |->
        <<"-", "-", "k", "e", "e", "p", "-", "f", "r", "o", "m", "-", "b", "r", "a", "n", "c", "h", "e", "s">>,
     keep_image_pattern |->
        <<"-", "-", "k", "e", "e", "p", "-", "i", "m", "a", "g", "e", "-", "p", "a", "t", "t", "e", "r", "n">>,
     only_image_pattern |->
        <<"-", "-", "o", "n", "l", "y", "-", "i", "m", "a", "g", "e", "-", "p", "a", "t", "t", "e", "r", "n">>,
     always_remove_pattern |->
        <<"-", "-", "a", "l", "w", "a", "y", "s", "-", "r", "e", "m", "o", "v", "e", "-", "p", "a", "t", "t", "e", "r", "n">>,
     remove_dangling |->
        <<"-", "-", "r", "e", "m", "o", "v", "e", "-", "d", "a", "n", "g", "l", "i", "n", "g">>,
     help |->
        <<"-", "-", "h", "e", "l", "p">>]
ShortHelp == <<"-", "h">>
DoubleDash == <<"-", "-">>
Required == {"repo_location", "list_images_cmd", "keep_from_branches"}

\* Decimal digits outside ASCII (category Nd), which \d matches as well.
UnicodeDigits ==
    {"U+0660", "U+0661", "U+0662", "U+0663", "U+0664", "U+0665", "U+0666", "U+0667",
     "U+0668", "U+0669", "U+06F0", "U+06F1", "U+06F2", "U+06F3", "U+06F4", "U+06F5",
     "U+06F6", "U+06F7", "U+06F8", "U+06F9", "U+07C0", "U+07C1", "U+07C2", "U+07C3",
     "U+07C4", "U+07C5", "U+07C6", "U+07C7", "U+07C8", "U+07C9", "U+0966", "U+0967",
     "U+0968", "U+0969", "U+096A", "U+096B", "U+096C", "U+096D", "U+096E", "U+096F",
     "U+09E6", "U+09E7", "U+09E8", "U+09E9", "U+09EA", "U+09EB", "U+09EC", "U+09ED",
     "U+09EE", "U+09EF", "U+0A66", "U+0A67", "U+0A68", "U+0A69", "U+0A6A", "U+0A6B",
     "U+0A6C", "U+0A6D", "U+0A6E", "U+0A6F", "U+0AE6", "U+0AE7", "U+0AE8", "U+0AE9",
     "U+0AEA", "U+0AEB", "U+0AEC", "U+0AED", "U+0AEE", "U+0AEF", "U+0B66", "U+0B67",
     "U+0B68", "U+0B69", "U+0B6A", "U+0B6B", "U+0B6C", "U+0B6D", "U+0B6E", "U+0B6F",
     "U+0BE6", "U+0BE7", "U+0BE8", "U+0BE9", "U+0BEA", "U+0BEB", "U+0BEC", "U+0BED",
     "U+0BEE", "U+0BEF", "U+0C66", "U+0C67", "U+0C68", "U+0C69", "U+0C6A", "U+0C6B",
     "U+0C6C", "U+0C6D", "U+0C6E", "U+0C6F", "U+0CE6", "U+0CE7", "U+0CE8", "U+0CE9",
     "U+0CEA", "U+0CEB", "U+0CEC", "U+0CED", "U+0CEE", "U+0CEF", "U+0D66", "U+0D67",
     "U+0D68", "U+0D69", "U+0D6A", "U+0D6B", "U+0D6C", "U+0D6D", "U+0D6E", "U+0D6F",
     "U+0DE6", "U+0DE7", "U+0DE8", "U+0DE9", "U+0DEA", "U+0DEB", "U+0DEC", "U+0DED",
     "U+0DEE", "U+0DEF", "U+0E50", "U+0E51", "U+0E52", "U+0E53", "U+0E54", "U+0E55",
     "U+0E56", "U+0E57", "U+0E58", "U+0E59", "U+0ED0", "U+0ED1", "U+0ED2", "U+0ED3",
     "U+0ED4", "U+0ED5", "U+0ED6", "U+0ED7", "U+0ED8", "U+0ED9", "U+0F20", "U+0F21",
     "U+0F22", "U+0F23", "U+0F24", "U+0F25", "U+0F26", "U+0F27", "U+0F28", "U+0F29",
     "U+1040", "U+1041", "U+1042", "U+1043", "U+1044", "U+1045", "U+1046", "U+1047",
     "U+1048", "U+1049", "U+1090", "U+1091", "U+1092", "U+1093", "U+1094", "U+1095",
     "U+1096", "U+1097", "U+1098", "U+1099", "U+17E0", "U+17E1", "U+17E2", "U+17E3",
     "U+17E4", "U+17E5", "U+17E6", "U+17E7", "U+17E8", "U+17E9", "U+1810", "U+1811",
     "U+1812", "U+1813", "U+1814", "U+1815", "U+1816", "U+1817", "U+1818", "U+1819",
     "U+1946", "U+1947", "U+1948", "U+1949", "U+194A", "U+194B", "U+194C", "U+194D",
     "U+194E", "U+194F", "U+19D0", "U+19D1", "U+19D2", "U+19D3", "U+19D4", "U+19D5",
     "U+19D6", "U+19D7", "U+19D8", "U+19D9", "U+1A80", "U+1A81", "U+1A82", "U+1A83",
     "U+1A84", "U+1A85", "U+1A86", "U+1A87", "U+1A88", "U+1A89", "U+1A90", "U+1A91",
     "U+1A92", "U+1A93", "U+1A94", "U+1A95", "U+1A96", "U+1A97", "U+1A98", "U+1A99",
     "U+1B50", "U+1B51", "U+1B52", "U+1B53", "U+1B54", "U+1B55", "U+1B56", "U+1B57",
     "U+1B58", "U+1B59", "U+1BB0", "U+1BB1", "U+1BB2", "U+1BB3", "U+1BB4", "U+1BB5",
     "U+1BB6", "U+1BB7", "U+1BB8", "U+1BB9", "U+1C40", "U+1C41", "U+1C42", "U+1C43",
     "U+1C44", "U+1C45", "U+1C46", "U+1C47", "U+1C48", "U+1C49", "U+1C50", "U+1C51",
     "U+1C52", "U+1C53", "U+1C54", "U+1C55", "U+1C56", "U+1C57", "U+1C58", "U+1C59",
     "U+A620", "U+A621", "U+A622", "U+A623", "U+A624", "U+A625", "U+A626", "U+A627",
     "U+A628", "U+A629", "U+A8D0", "U+A8D1", "U+A8D2", "U+A8D3", "U+A8D4", "U+A8D5",
     "U+A8D6", "U+A8D7", "U+A8D8", "U+A8D9", "U+A900", "U+A901", "U+A902", "U+A903",
     "U+A904", "U+A905", "U+A906", "U+A907", "U+A908", "U+A909", "U+A9D0", "U+A9D1",
     "U+A9D2", "U+A9D3", "U+A9D4", "U+A9D5", "U+A9D6", "U+A9D7", "U+A9D8", "U+A9D9",
     "U+A9F0", "U+A9F1", "U+A9F2", "U+A9F3", "U+A9F4", "U+A9F5", "U+A9F6", "U+A9F7",
     "U+A9F8", "U+A9F9", "U+AA50", "U+AA51", "U+AA52", "U+AA53", "U+AA54", "U+AA55",
     "U+AA56", "U+AA57", "U+AA58", "U+AA59", "U+ABF0", "U+ABF1", "U+ABF2", "U+ABF3",
     "U+ABF4", "U+ABF5", "U+ABF6", "U+ABF7", "U+ABF8", "U+ABF9", "U+FF10", "U+FF11",
     "U+FF12", "U+FF13", "U+FF14", "U+FF15", "U+FF16", "U+FF17", "U+FF18", "U+FF19",
     "U+104A0", "U+104A1", "U+104A2", "U+104A3", "U+104A4", "U+104A5", "U+104A6", "U+104A7",
     "U+104A8", "U+104A9", "U+10D30", "U+10D31", "U+10D32", "U+10D33", "U+10D34", "U+10D35",
     "U+10D36", "U+10D37", "U+10D38", "U+10D39", "U+11066", "U+11067", "U+11068", "U+11069",
     "U+1106A", "U+1106B", "U+1106C", "U+1106D", "U+1106E", "U+1106F", "U+110F0", "U+110F1",
     "U+110F2", "U+110F3", "U+110F4", "U+110F5", "U+110F6", "U+110F7", "U+110F8", "U+110F9",
     "U+11136", "U+11137", "U+11138", "U+11139", "U+1113A", "U+1113B", "U+1113C", "U+1113D",
     "U+1113E", "U+1113F", "U+111D0", "U+111D1", "U+111D2", "U+111D3", "U+111D4", "U+111D5",
     "U+111D6", "U+111D7", "U+111D8", "U+111D9", "U+112F0", "U+112F1", "U+112F2", "U+112F3",
     "U+112F4", "U+112F5", "U+112F6", "U+112F7", "U+112F8", "U+112F9", "U+11450", "U+11451",
     "U+11452", "U+11453", "U+11454", "U+11455", "U+11456", "U+11457", "U+11458", "U+11459",
     "U+114D0", "U+114D1", "U+114D2", "U+114D3", "U+114D4", "U+114D5", "U+114D6", "U+114D7",
     "U+114D8", "U+114D9", "U+11650", "U+11651", "U+11652", "U+11653", "U+11654", "U+11655",
     "U+11656", "U+11657", "U+11658", "U+11659", "U+116C0", "U+116C1", "U+116C2", "U+116C3",
     "U+116C4", "U+116C5", "U+116C6", "U+116C7", "U+116C8", "U+116C9", "U+11730", "U+11731",
     "U+11732", "U+11733", "U+11734", "U+11735", "U+11736", "U+11737", "U+11738", "U+11739",
     "U+118E0", "U+118E1", "U+118E2", "U+118E3", "U+118E4", "U+118E5", "U+118E6", "U+118E7",
     "U+118E8", "U+118E9", "U+11950", "U+11951", "U+11952", "U+11953", "U+11954", "U+11955",
     "U+11956", "U+11957", "U+11958", "U+11959", "U+11C50", "U+11C51", "U+11C52", "U+11C53",
     "U+11C54", "U+11C55", "U+11C56", "U+11C57", "U+11C58", "U+11C59", "U+11D50", "U+11D51",
     "U+11D52", "U+11D53", "U+11D54", "U+11D55", "U+11D56", "U+11D57", "U+11D58", "U+11D59",
     "U+11DA0", "U+11DA1", "U+11DA2", "U+11DA3", "U+11DA4", "U+11DA5", "U+11DA6", "U+11DA7",
     "U+11DA8", "U+11DA9", "U+16A60", "U+16A61", "U+16A62", "U+16A63", "U+16A64", "U+16A65",
     "U+16A66", "U+16A67", "U+16A68", "U+16A69", "U+16AC0", "U+16AC1", "U+16AC2", "U+16AC3",
     "U+16AC4", "U+16AC5", "U+16AC6", "U+16AC7", "U+16AC8", "U+16AC9", "U+16B50", "U+16B51",
     "U+16B52", "U+16B53", "U+16B54", "U+16B55", "U+16B56", "U+16B57", "U+16B58", "U+16B59",
     "U+1D7CE", "U+1D7CF", "U+1D7D0", "U+1D7D1", "U+1D7D2", "U+1D7D3", "U+1D7D4", "U+1D7D5",
     "U+1D7D6", "U+1D7D7", "U+1D7D8", "U+1D7D9", "U+1D7DA", "U+1D7DB", "U+1D7DC", "U+1D7DD",
     "U+1D7DE", "U+1D7DF", "U+1D7E0", "U+1D7E1", "U+1D7E2", "U+1D7E3", "U+1D7E4", "U+1D7E5",
     "U+1D7E6", "U+1D7E7", "U+1D7E8", "U+1D7E9", "U+1D7EA", "U+1D7EB", "U+1D7EC", "U+1D7ED",
     "U+1D7EE", "U+1D7EF", "U+1D7F0", "U+1D7F1", "U+1D7F2", "U+1D7F3", "U+1D7F4", "U+1D7F5",
     "U+1D7F6", "U+1D7F7", "U+1D7F8", "U+1D7F9", "U+1D7FA", "U+1D7FB", "U+1D7FC", "U+1D7FD",
     "U+1D7FE", "U+1D7FF", "U+1E140", "U+1E141", "U+1E142", "U+1E143", "U+1E144", "U+1E145",
     "U+1E146", "U+1E147", "U+1E148", "U+1E149", "U+1E2F0", "U+1E2F1", "U+1E2F2", "U+1E2F3",
     "U+1E2F4", "U+1E2F5", "U+1E2F6", "U+1E2F7", "U+1E2F8", "U+1E2F9", "U+1E950", "U+1E951",
     "U+1E952", "U+1E953", "U+1E954", "U+1E955", "U+1E956", "U+1E957", "U+1E958", "U+1E959",
     "U+1FBF0", "U+1FBF1", "U+1FBF2", "U+1FBF3", "U+1FBF4", "U+1FBF5", "U+1FBF6", "U+1FBF7",
     "U+1FBF8", "U+1FBF9"}
Digits == {"0", "1", "2", "3", "4", "5", "6", "7", "8", "9"} \cup UnicodeDigits
AllDigits(s) == \A k \in 1..Len(s) : s[k] \in Digits

\* -\d+ or -\d*\.\d+ from the first character to the last
SignedNumber(v) ==
    /\ Len(v) >= 2
    /\ v[1] = "-"
    /\ \/ AllDigits(Tail(v))
       \/ \E k \in 2..(Len(v) - 1) :
             /\ v[k] = "."
             /\ AllDigits(SubSeq(v, 2, k - 1))
             /\ AllDigits(SubSeq(v, k + 1, Len(v)))

\* argparse's _negative_number_matcher, ^-\d+$|^-\d*\.\d+$ under match: "$" is
\* the end of the string or the place before a newline that ends it.
NegativeNumber(v) ==
    \/ SignedNumber(v)
    \/ Len(v) >= 1 /\ v[Len(v)] = NL /\ SignedNumber(SubSeq(v, 1, Len(v) - 1))

NoExplicit == [has |-> FALSE, val |-> <<>>]
Explicit(s) == [has |-> TRUE, val |-> s]
Positional == [kind |-> "A", dest |-> "", short |-> FALSE, explicit |-> NoExplicit]
Optional(dest, short, explicit) ==
    [kind |-> "O", dest |-> dest, short |-> short, explicit |-> explicit]
Ambiguous == [kind |-> "error", dest |-> "", short |-> FALSE, explicit |-> NoExplicit]

\* An argument that starts with "-" and names no option: a negative number or
\* an argument with a space is a value, anything else an unknown option.
OptionLike(arg_string) ==
    IF NegativeNumber(arg_string) \/ " " \in RangeOf(arg_string)
    THEN Positional
    ELSE Optional("unknown", FALSE, NoExplicit)

\* ArgumentParser._parse_optional with _get_option_tuples: an argument is a
\* value ("A"), or an option ("O") with the text joined to it if any: an
\* option string, an option string and "=", an unambiguous beginning of a long
\* option string, or -h with more letters; the beginning of several option
\* strings is an error.
_parse_optional(arg_string) ==
    LET eq == Find(arg_string, "=")
        left == IF eq = 0 THEN arg_string ELSE SubSeq(arg_string, 1, eq - 1)
        right == IF eq = 0 THEN NoExplicit
                 ELSE Explicit(SubSeq(arg_string, eq + 1, Len(arg_string)))
        exact(s) == {d \in DOMAIN OptionStrings : OptionStrings[d] = s}
        tuples == {d \in DOMAIN OptionStrings : StartsWith(OptionStrings[d], left)}
    IN  IF arg_string[1] # "-" THEN Positional
        ELSE IF exact(arg_string) # {}
        THEN Optional(CHOOSE d \in exact(arg_string) : TRUE, FALSE, NoExplicit)
        ELSE IF arg_string = ShortHelp THEN Optional("help", TRUE, NoExplicit)
        ELSE IF Len(arg_string) = 1 THEN Positional
        ELSE IF eq # 0 /\ exact(left) # {}
        THEN Optional(CHOOSE d \in exact(left) : TRUE, FALSE, right)
        ELSE IF eq # 0 /\ left = ShortHelp THEN Optional("help", TRUE, right)
        ELSE IF arg_string[2] = "-"
        THEN IF Cardinality(tuples) > 1 THEN Ambiguous
             ELSE IF Cardinality(tuples) = 1
             THEN Optional(CHOOSE d \in tuples : TRUE, FALSE, right)
             ELSE OptionLike(arg_string)
        ELSE IF SubSeq(arg_string, 1, 2) = ShortHelp
        THEN Optional("help", TRUE, Explicit(SubSeq(arg_string, 3, Len(arg_string))))
        ELSE OptionLike(arg_string)

\* The pattern of the command line: every argument up to the first "--" as
\* _parse_optional reads it, that "--" as "-", every argument after it "A".
Pattern(arg_strings) ==
    LET dashes == {k \in 1..Len(arg_strings) : arg_strings[k] = DoubleDash}
        first == IF dashes = {} THEN Len(arg_strings) + 1
                 ELSE CHOOSE k \in dashes : \A j \in dashes : k <= j
    IN  [k \in 1..Len(arg_strings) |->
            IF k < first THEN _parse_optional(arg_strings[k])
            ELSE IF k = first
            THEN [kind |-> "-", dest |-> "", short |-> FALSE, explicit |-> NoExplicit]
            ELSE Positional]

Exit(code) == [exit |-> TRUE, code |-> code, ns |-> <<>>]

\* The namespace before the command line is read: the defaults of the options.
Defaults ==
    [repo_location |-> PyNone, list_images_cmd |-> PyNone,
     keep_from_branches |-> PyNone, keep_image_pattern |-> PyNone,
     only_image_pattern |-> PyNone, always_remove_pattern |-> PyNone,
     remove_dangling |-> PyBool(TRUE)]

\* ArgumentParser._get_values for the text joined to an option: the first "--"
\* is struck from the list of values, which leaves the list empty; any other
\* text is the value (no option declares a type).
_get_values(explicit_arg) ==
    IF explicit_arg = DoubleDash THEN PyList ELSE PyStr(explicit_arg)

RECURSIVE consume_optional(_, _, _, _, _, _)
\* The loop of _parse_known_args from argument k on: an argument that is no
\* option, and an unknown option, is an extra; -h and --help print the help
\* and exit 0, unless text is joined that is not more "h" after -h; any other
\* option stores the text joined to it or else the next argument, which must
\* be a value.  At the end a required option that was not seen, and any
\* extra, is an error.
consume_optional(arg_strings, pattern, k, namespace, seen_actions, extras) ==
    IF k > Len(arg_strings)
    THEN IF ~(Required \subseteq seen_actions) \/ extras
         THEN Exit(2)
         ELSE [exit |-> FALSE, code |-> 0, ns |-> namespace]
    ELSE LET o == pattern[k]
         IN  IF o.kind # "O" \/ o.dest = "unknown"
             THEN consume_optional(arg_strings, pattern, k + 1, namespace,
                                   seen_actions, TRUE)
             ELSE IF o.dest = "help"
             THEN IF ~o.explicit.has THEN Exit(0)
                  ELSE IF /\ o.short
                          /\ o.explicit.val # <<>>
                          /\ \A j \in 1..Len(o.explicit.val) : o.explicit.val[j] = "h"
                  THEN Exit(0)
                  ELSE Exit(2)
             ELSE IF o.explicit.has
             THEN consume_optional(arg_strings, pattern, k + 1,
                        [namespace EXCEPT ![o.dest] = _get_values(o.explicit.val)],
                        seen_actions \cup {o.dest}, extras)
             ELSE IF k < Len(arg_strings) /\ pattern[k + 1].kind = "A"
             THEN consume_optional(arg_strings, pattern, k + 2,
                        [namespace EXCEPT ![o.dest] = PyStr(arg_strings[k + 1])],
                        seen_actions \cup {o.dest}, extras)
             ELSE Exit(2)

\* build_arg_parser().parse_args: SystemExit(2) on an ambiguous option, found
\* before any option is acted on, and on any other error; SystemExit(0) on
\* help; else the namespace.
parse_args(arg_strings) ==
    LET pattern == Pattern(arg_strings)
    IN  IF \E k \in 1..Len(arg_strings) : pattern[k].kind = "error"
        THEN Exit(2)
        ELSE consume_optional(arg_strings, pattern, 1, Defaults, {}, FALSE)

\* Args(**args_.__dict__): a plain copy of the fields.
Args(ns) ==
    [repo_location |-> ns.repo_location,
     list_images_cmd |-> ns.list_images_cmd,
     keep_from_branches |-> ns.keep_from_branches,
     keep_image_pattern |-> ns.keep_image_pattern,
     only_image_pattern |-> ns.only_image_pattern,
     always_remove_pattern |-> ns.always_remove_pattern,
     remove_dangling |-> ns.remove_dangling]

NoArgs ==
    [repo_location |-> PyNone, list_images_cmd |-> PyNone,
     keep_from_branches |-> PyNone, keep_image_pattern |-> PyNone,
     only_image_pattern |-> PyNone, always_remove_pattern |-> PyNone,
     remove_dangling |-> PyNone]

-----------------------------------------------------------------------------
(* Regular expressions: literals and "." are the patterns of the model *)

RECURSIVE ReMatch(_, _)
\* re.compile(pattern).match(input): the pattern must match at the start of the
\* input and need not reach its end.
ReMatch(pattern, input) ==
    IF pattern = <<>> THEN TRUE
    ELSE /\ input # <<>>
         /\ (pattern[1] = "." /\ input[1] # NL) \/ pattern[1] = input[1]
         /\ ReMatch(Tail(pattern), Tail(input))

_check_matches_pattern(input, pattern) == ReMatch(pattern.s, input)

-----------------------------------------------------------------------------
(* Classification filter *)

NoAcc == [tags |-> {}, images |-> {}]

\* A filter that looks at always_remove_pattern before keep_image_pattern.
RemovesTag_AlwaysFirst(repo_tag, images_to_keep, a) ==
    IF Truthy(a.always_remove_pattern)
          /\ _check_matches_pattern(repo_tag, a.always_remove_pattern)
    THEN TRUE
    ELSE IF Truthy(a.keep_image_pattern)
               /\ _check_matches_pattern(repo_tag, a.keep_image_pattern)
    THEN FALSE
    ELSE IF Truthy(a.only_image_pattern)
               /\ ~_check_matches_pattern(repo_tag, a.only_image_pattern)
    THEN FALSE
    ELSE repo_tag \notin images_to_keep

\* The body of the loop over repo_tags, lines 152-172: TRUE when the tag is added
\* to tags_to_remove (and its image to images_to_remove).
RemovesTag(repo_tag, images_to_keep, a) ==
    IF Truthy(a.keep_image_pattern)
          /\ _check_matches_pattern(repo_tag, a.keep_image_pattern)
    THEN FALSE
    ELSE IF Truthy(a.always_remove_pattern)
               /\ _check_matches_pattern(repo_tag, a.always_remove_pattern)
    THEN TRUE
    ELSE IF Truthy(a.only_image_pattern)
               /\ ~_check_matches_pattern(repo_tag, a.only_image_pattern)
    THEN FALSE
    ELSE repo_tag \notin images_to_keep

RECURSIVE FilterTags(_, _, _, _, _)
\* for repo_tag in repo_tags
FilterTags(repo_tags, image, images_to_keep, a, acc) ==
    IF repo_tags = <<>> THEN acc
    ELSE FilterTags(Tail(repo_tags), image, images_to_keep, a,
            IF RemovesTag(Head(repo_tags), images_to_keep, a)
            THEN [tags |-> acc.tags \cup {Head(repo_tags)},
                  images |-> acc.images \cup {image}]
            ELSE acc)

\* A filter that protects the whole image once one of its tags matches
\* keep_image_pattern.
FilterImage_PerImage(image, images_to_keep, a, acc) ==
    IF image.RepoTags = <<>>
    THEN IF Truthy(a.remove_dangling)
         THEN [tags |-> acc.tags \cup {image.Id}, images |-> acc.images \cup {image}]
         ELSE acc
    ELSE IF /\ Truthy(a.keep_image_pattern)
            /\ \E k \in 1..Len(image.RepoTags) :
                  _check_matches_pattern(image.RepoTags[k], a.keep_image_pattern)
    THEN acc
    ELSE FilterTags(image.RepoTags, image, images_to_keep, a, acc)

\* A filter that records the Id of a dangling image and forgets the image.
FilterImage_IdOnly(image, images_to_keep, a, acc) ==
    IF image.RepoTags = <<>>
    THEN IF Truthy(a.remove_dangling)
         THEN [tags |-> acc.tags \cup {image.Id}, images |-> acc.images]
         ELSE acc
    ELSE FilterTags(image.RepoTags, image, images_to_keep, a, acc)

\* One round of the loop over images_found.
FilterImage(image, images_to_keep, a, acc) ==
    IF image.RepoTags = <<>>
    THEN IF Truthy(a.remove_dangling)
         THEN [tags |-> acc.tags \cup {image.Id}, images |-> acc.images \cup {image}]
         ELSE acc
    ELSE FilterTags(image.RepoTags, image, images_to_keep, a, acc)

RECURSIVE FilterLoop(_, _, _, _)
FilterLoop(images_found, images_to_keep, a, acc) ==
    IF images_found = <<>> THEN acc
    ELSE FilterLoop(Tail(images_found), images_to_keep, a,
                    FilterImage(Head(images_found), images_to_keep, a, acc))

filter_images(images_found, images_to_keep, a) ==
    FilterLoop(images_found, images_to_keep, a, NoAcc)

-----------------------------------------------------------------------------
(* Size estimator *)

RECURSIVE SumSizes(_)
SumSizes(images) ==
    IF images = {} THEN 0
    ELSE LET image == CHOOSE x \in images : TRUE
         IN  image.Size + SumSizes(images \ {image})

\* image.attrs["Size"] raises KeyError for an image that has no such key.
estimate_total_size(images) ==
    IF \E image \in images : ~image.HasSize
    THEN [raised |-> TRUE, value |-> 0]
    ELSE [raised |-> FALSE, value |-> SumSizes(images)]

-----------------------------------------------------------------------------
(* Subprocesses *)

\* line.decode() and the removal of one trailing newline.
_clean_line(line) ==
    IF line[Len(line)] = NL THEN SubSeq(line, 1, Len(line) - 1) ELSE line

\* p.poll() runs once, right after Popen: p.returncode is the exit status when
\* the process had already exited by then and stays None otherwise, because
\* readlines() waits for the end of the output without setting it.
_handle_subprocess(proc, exited_at_poll) ==
    LET returncode == IF exited_at_poll THEN PyInt(proc.rc) ELSE PyNone
    IN  [raised |-> Truthy(returncode),
         returncode |-> returncode,
         stdout |-> [k \in 1..Len(proc.stdout) |-> _clean_line(proc.stdout[k])],
         stderr |-> [k \in 1..Len(proc.stderr) |-> _clean_line(proc.stderr[k])]]

\* git diff HEAD: the diff of a dirty tree on stdout; a repository it cannot
\* diff makes it exit 128 with a message on stderr.
GitDiff(tree) ==
    CASE tree = "clean" -> [rc |-> 0, stdout |-> <<>>, stderr |-> <<>>]
      [] tree = "dirty" -> [rc |-> 0, stdout |-> << <<"d", NL>> >>, stderr |-> <<>>]
      [] tree = "broken" -> [rc |-> 128, stdout |-> <<>>, stderr |-> << <<"f", NL>> >>]

\* A check that looks at stderr only.
git_check_dirty_StderrOnly(r) == r.stderr # <<>>

\* git_check_dirty, given what _handle_subprocess returned.
git_check_dirty(r) == r.stdout # <<>> \/ r.stderr # <<>>

\* git checkout <branch>: succeeds or fails; it reports on stderr either way.
GitCheckout(branch) ==
    {[rc |-> rc, stdout |-> <<>>, stderr |-> << <<"s", NL>> >>] :
        rc \in IF branch = <<>> THEN {1} ELSE {0, 1}}

\* read_images_to_keep, given the stdout _handle_subprocess returned.
read_images_to_keep(stdout) == RangeOf(stdout)

\* An assignment in the place of the update.
Update_Overwrite(keep, images) == images

\* tags_to_keep.update(...)
Update(keep, images) == keep \cup images

RECURSIVE Split(_)
\* str.split(","): one field more than there are commas.
Split(s) ==
    IF s = <<>> THEN << <<>> >>
    ELSE LET rest == Split(Tail(s))
         IN  IF Head(s) = "," THEN << <<>> >> \o rest
             ELSE << <<Head(s)>> \o rest[1] >> \o Tail(rest)

-----------------------------------------------------------------------------
(* Inputs of the model *)

Missing == 0 - 1

RECURSIVE IdOf(_)
\* The Id of the k-th image; no tag starts with "#".
IdOf(k) == IF k = 0 THEN <<"#">> ELSE IdOf(k - 1) \o <<"i">>

TagUniverse == {<<"a">>, <<"a", "b">>, <<"b">>}

\* Lists of distinct tags.
TagLists(tags, n) ==
    UNION {{t \in [1..m -> tags] : \A x, y \in 1..m : x # y => t[x] # t[y]} : m \in 0..n}

Image(k, t, s) ==
    [Id |-> IdOf(k), RepoTags |-> t, HasSize |-> s # Missing,
     Size |-> IF s = Missing THEN 0 ELSE s]

\* The image store: up to n images, no tag on two images.
Inventories(tagLists, sizes, n) ==
    UNION {{inv \in [1..m -> {Image(k, t, s) : k \in 1..m, t \in tagLists, s \in sizes}] :
               /\ \A k \in 1..m : inv[k].Id = IdOf(k)
               /\ \A x, y \in 1..m :
                     x # y => RangeOf(inv[x].RepoTags) \cap RangeOf(inv[y].RepoTags) = {}}
           : m \in 0..n}

\* An option is absent, or written --option value (two arguments), or written
\* --option=value (one argument).
Absent == [given |-> FALSE, val |-> <<>>, joined |-> FALSE]
Given(s) == [given |-> TRUE, val |-> s, joined |-> FALSE]
GivenEq(s) == [given |-> TRUE, val |-> s, joined |-> TRUE]

Words(dest, o) ==
    IF ~o.given THEN <<>>
    ELSE IF o.joined THEN << OptionStrings[dest] \o <<"=">> \o o.val >>
    ELSE << OptionStrings[dest], o.val >>

Program == <<"p">>

\* sys.argv for the options of r.
CommandLine(r) ==
    <<Program>> \o Words("repo_location", r.repo_location)
        \o Words("list_images_cmd", r.list_images_cmd)
        \o Words("keep_from_branches", r.keep_from_branches)
        \o Words("keep_image_pattern", r.keep_image_pattern)
        \o Words("only_image_pattern", r.only_image_pattern)
        \o Words("always_remove_pattern", r.always_remove_pattern)
        \o Words("remove_dangling", r.remove_dangling)

PatternStrings == {<<>>, <<"a">>, <<"a", "b">>, <<".">>}
PatternOptions ==
    {Absent, GivenEq(<<>>)} \cup {Given(p) : p \in PatternStrings \ {<<>>}}
DanglingOptions == {Absent, GivenEq(<<>>), Given(<<"F", "a", "l", "s", "e">>)}

\* The directories os.chdir can enter, and the paths of the model.
Directories == {<<"r">>}
RepoPaths == {<<"r">>, <<"x">>}

BranchNames == {<<"m">>, <<"d">>}

RECURSIVE Join(_)
Join(names) ==
    IF Len(names) = 1 THEN names[1] ELSE names[1] \o <<",">> \o Join(Tail(names))

BranchStrings == {Join(b) : b \in UNION {[1..m -> BranchNames] : m \in 1..MaxBranches}}

\* What the discovery command prints: up to MaxLines lines, the last one with
\* or without its newline.
LineTexts == {<<>>, <<"a">>, <<"a", "b">>}
Outputs ==
    {[texts |-> t, nl |-> nl] :
        t \in UNION {[1..m -> LineTexts] : m \in 0..MaxLines}, nl \in BOOLEAN}
RawLines(o) ==
    [k \in 1..Len(o.texts) |->
        IF k < Len(o.texts) \/ o.nl THEN o.texts[k] \o <<NL>> ELSE o.texts[k]]
Discovery ==
    {[rc |-> rc, stdout |-> RawLines(o), stderr |-> <<>>, texts |-> o.texts] :
        rc \in {0, 1},
        o \in {o \in Outputs : o.texts # <<>> /\ o.texts[Len(o.texts)] = <<>> => o.nl}}

-----------------------------------------------------------------------------
(* main *)

Terminal == {"returned", "raised", "exited", "done"}
Launched == diffs + checkouts + discoveries

\* The first subprocess that exits non-zero is remembered with its number.
NoteExit(proc, number) ==
    IF failedAt = 0 /\ proc.rc # 0 THEN number ELSE failedAt

\* os.chdir(path) succeeds.
chdir(path) == path.kind = "str" /\ path.s \in Directories

\* Lines 195-198: the command line becomes the Args object and the repository
\* the working directory; argparse may exit and os.chdir may raise.
ParseArgs ==
    /\ pc = "parse"
    /\ LET args_ == parse_args(NonEmptyArgs(argv))
       IN  IF args_.exit
           THEN pc' = "exited" /\ status' = args_.code /\ UNCHANGED args
           ELSE /\ args' = Args(args_.ns)
                /\ pc' = IF chdir(Args(args_.ns).repo_location)
                         THEN "dirty_check" ELSE "raised"
                /\ UNCHANGED status
    /\ UNCHANGED <<diffs, argv, worktree, all_images, branches, i, tags_to_keep,
                   tags_to_remove, images_to_remove, size_estimate, pending, attempts,
                   removed, failed, pruned, confirmed, checkouts, discoveries, printed,
                   failedAt>>

\* Lines 200-206: git diff HEAD; a dirty repository ends the run with status
\* 1; args.keep_from_branches is split, which raises when it is no string.
CheckDirty ==
    /\ pc = "dirty_check"
    /\ \E exited_at_poll \in BOOLEAN :
          LET proc == GitDiff(worktree)
              r == _handle_subprocess(proc, exited_at_poll)
          IN  /\ failedAt' = NoteExit(proc, 1)
              /\ diffs' = diffs + 1
              /\ IF r.raised
                 THEN pc' = "raised" /\ UNCHANGED <<status, branches, i>>
                 ELSE IF git_check_dirty(r)
                 THEN pc' = "returned" /\ status' = 1 /\ UNCHANGED <<branches, i>>
                 ELSE IF args.keep_from_branches.kind # "str"
                 THEN pc' = "raised" /\ UNCHANGED <<status, branches, i>>
                 ELSE /\ pc' = "checkout"
                      /\ branches' = Split(args.keep_from_branches.s)
                      /\ i' = 1
                      /\ UNCHANGED status
    /\ UNCHANGED <<argv, worktree, all_images, args, tags_to_keep, tags_to_remove,
                   images_to_remove, size_estimate, pending, attempts, removed, failed, pruned,
                   confirmed, checkouts, discoveries, printed>>

\* Line 208: git checkout of the branch the loop is at.
CheckoutBranch ==
    /\ pc = "checkout"
    /\ \E proc \in GitCheckout(branches[i]), exited_at_poll \in BOOLEAN :
          LET r == _handle_subprocess(proc, exited_at_poll)
          IN  /\ failedAt' = NoteExit(proc, Launched + 1)
              /\ pc' = IF r.raised THEN "raised" ELSE "discover"
    /\ checkouts' = checkouts + 1
    /\ UNCHANGED <<diffs, argv, worktree, all_images, args, status, branches, i, tags_to_keep,
                   tags_to_remove, images_to_remove, size_estimate, pending, attempts,
                   removed, failed, pruned, confirmed, discoveries, printed>>

\* Line 209: the discovery command on the branch checked out, its lines added
\* to tags_to_keep; then the next branch, or the end of the loop.  Popen raises
\* before it starts anything when the command is no string.
ReadImagesToKeep ==
    /\ pc = "discover"
    /\ IF args.list_images_cmd.kind # "str"
       THEN /\ pc' = "raised"
            /\ UNCHANGED <<failedAt, printed, tags_to_keep, i, discoveries>>
       ELSE /\ \E proc \in Discovery, exited_at_poll \in BOOLEAN :
                  LET r == _handle_subprocess(proc, exited_at_poll)
                  IN  /\ failedAt' = NoteExit(proc, Launched + 1)
                      /\ printed' = printed \cup RangeOf(proc.texts)
                      /\ IF r.raised
                         THEN pc' = "raised" /\ UNCHANGED <<tags_to_keep, i>>
                         ELSE /\ tags_to_keep' =
                                    Update(tags_to_keep, read_images_to_keep(r.stdout))
                              /\ i' = i + 1
                              /\ pc' = IF i = Len(branches) THEN "filter" ELSE "checkout"
            /\ discoveries' = discoveries + 1
    /\ UNCHANGED <<diffs, argv, worktree, all_images, args, status, branches, tags_to_remove,
                   images_to_remove, size_estimate, pending, attempts, removed, failed, pruned,
                   confirmed, checkouts>>

\* Line 214.
FilterImages ==
    /\ pc = "filter"
    /\ LET r == filter_images(all_images, tags_to_keep, args)
       IN  /\ tags_to_remove' = r.tags
           /\ images_to_remove' = r.images
    /\ pc' = "estimate"
    /\ UNCHANGED <<diffs, argv, worktree, all_images, args, status, branches, i, tags_to_keep,
                   size_estimate, pending, attempts, removed, failed, pruned, confirmed,
                   checkouts, discoveries, printed, failedAt>>

\* Lines 218-221.
EstimateTotalSize ==
    /\ pc = "estimate"
    /\ LET r == estimate_total_size(images_to_remove)
       IN  IF r.raised
           THEN pc' = "raised" /\ UNCHANGED size_estimate
           ELSE pc' = "confirm" /\ size_estimate' = r.value
    /\ UNCHANGED <<diffs, argv, worktree, all_images, args, status, branches, i, tags_to_keep,
                   tags_to_remove, images_to_remove, pending, attempts, removed, failed, pruned,
                   confirmed, checkouts, discoveries, printed, failedAt>>

\* Line 222: input() returns, and the loop of remove_images_by_tags starts.
Confirm ==
    /\ pc = "confirm"
    /\ pc' = "remove"
    /\ confirmed' = TRUE
    /\ pending' = tags_to_remove
    /\ UNCHANGED <<diffs, argv, worktree, all_images, args, status, branches, i, tags_to_keep,
                   tags_to_remove, images_to_remove, size_estimate, attempts, removed, failed,
                   pruned, checkouts, discoveries, printed, failedAt>>

\* Line 222: input() raises instead (end of input, an interrupt).
Interrupt ==
    /\ pc = "confirm"
    /\ pc' = "raised"
    /\ UNCHANGED <<diffs, argv, worktree, all_images, args, status, branches, i, tags_to_keep,
                   tags_to_remove, images_to_remove, size_estimate, pending, attempts,
                   removed, failed, pruned, confirmed, checkouts, discoveries, printed, failedAt>>

\* client.images.remove returns, raises an Exception, or raises what is none
\* (KeyboardInterrupt, SystemExit).
RemoveOutcomes == {"removed", "failed", "left"}

\* A loop that starts while the prompt is still waiting.
RemoveImage_BeforePrompt ==
    /\ pc \in {"confirm", "remove"}
    /\ \E tag_to_remove \in tags_to_remove \ BagToSet(attempts), outcome \in RemoveOutcomes :
          /\ attempts' = attempts (+) SetToBag({tag_to_remove})
          /\ removed' = IF outcome = "removed" THEN removed \cup {tag_to_remove}
                        ELSE removed
          /\ failed' = IF outcome = "failed" THEN failed \cup {tag_to_remove} ELSE failed
          /\ pending' = pending \ {tag_to_remove}
          /\ pc' = IF outcome = "left" THEN "raised" ELSE pc
    /\ UNCHANGED <<diffs, argv, worktree, all_images, args, status, branches, i,
                   tags_to_keep, tags_to_remove, images_to_remove, size_estimate, pruned,
                   confirmed, checkouts, discoveries, printed, failedAt>>

\* A loop that a failed removal leaves.
RemoveImage_FailureRaises ==
    /\ pc = "remove"
    /\ \E tag_to_remove \in pending, outcome \in RemoveOutcomes :
          /\ attempts' = attempts (+) SetToBag({tag_to_remove})
          /\ removed' = IF outcome = "removed" THEN removed \cup {tag_to_remove}
                        ELSE removed
          /\ failed' = IF outcome = "failed" THEN failed \cup {tag_to_remove} ELSE failed
          /\ pending' = pending \ {tag_to_remove}
          /\ pc' = IF outcome # "removed" THEN "raised" ELSE pc
    /\ UNCHANGED <<diffs, argv, worktree, all_images, args, status, branches, i,
                   tags_to_keep, tags_to_remove, images_to_remove, size_estimate, pruned,
                   confirmed, checkouts, discoveries, printed, failedAt>>

\* Lines 186-191: one round of the loop; the removal succeeds, or raises an
\* Exception and is logged, or raises what "except Exception" does not catch,
\* which leaves the loop and main.
RemoveImage ==
    /\ pc = "remove"
    /\ \E tag_to_remove \in pending, outcome \in RemoveOutcomes :
          /\ attempts' = attempts (+) SetToBag({tag_to_remove})
          /\ removed' = IF outcome = "removed" THEN removed \cup {tag_to_remove}
                        ELSE removed
          /\ failed' = IF outcome = "failed" THEN failed \cup {tag_to_remove} ELSE failed
          /\ pending' = pending \ {tag_to_remove}
          /\ pc' = IF outcome = "left" THEN "raised" ELSE pc
    /\ UNCHANGED <<diffs, argv, worktree, all_images, args, status, branches, i,
                   tags_to_keep, tags_to_remove, images_to_remove, size_estimate, pruned,
                   confirmed, checkouts, discoveries, printed, failedAt>>

\* Lines 225-227: the loop is over; prune, and main returns None, unless the
\* prune raises.
Prune ==
    /\ pc = "remove"
    /\ pending = {}
    /\ pruned' = pruned + 1
    /\ \E ok \in BOOLEAN :
          IF ok THEN pc' = "done" /\ status' = 0
          ELSE pc' = "raised" /\ UNCHANGED status
    /\ UNCHANGED <<diffs, argv, worktree, all_images, args, branches, i, tags_to_keep,
                   tags_to_remove, images_to_remove, size_estimate, pending, attempts,
                   removed, failed, confirmed, checkouts, discoveries, printed, failedAt>>

Blank ==
    /\ status = NoStatus
    /\ branches = <<>>
    /\ i = 0
    /\ tags_to_remove = {}
    /\ images_to_remove = {}
    /\ size_estimate = 0
    /\ pending = {}
    /\ attempts = EmptyBag
    /\ removed = {}
    /\ failed = {}
    /\ pruned = 0
    /\ confirmed = FALSE
    /\ diffs = 0
    /\ checkouts = 0
    /\ discoveries = 0
    /\ printed = {}
    /\ failedAt = 0

\* The command lines of a run: the options written out in full, and the other
\* ways of argparse: help, abbreviations, unknown and extra arguments, values
\* that start with "-", the value "--" joined to an option.
MainOptions ==
    {[repo_location |-> Given(r), list_images_cmd |-> l, keep_from_branches |-> Given(b),
      keep_image_pattern |-> k, only_image_pattern |-> Absent,
      always_remove_pattern |-> a, remove_dangling |-> d] :
        r \in RepoPaths, l \in {Given(<<"c">>), Given(<<>>), Absent},
        b \in BranchStrings, k \in {Absent, Given(<<"-", "a">>)},
        a \in {Absent, Given(<<"a", "b">>)}, d \in {Absent, GivenEq(<<>>), Given(<<>>)}}

Usual ==
    <<Program, OptionStrings.repo_location, <<"r">>, OptionStrings.list_images_cmd, <<"c">>,
      OptionStrings.keep_from_branches, <<"m">>>>

OtherArgv ==
    {<<Program, OptionStrings.help>>,
     <<Program, ShortHelp>>,
     <<Program, <<"-", "h", "h">>>>,
     <<Program, <<"-", "h", "x">>>>,
     <<Program, <<"-", "-", "h", "e">>>>,
     <<Program, <<"-", "-", "h", "e", "l", "p", "=", "x">>>>,
     <<Program, OptionStrings.repo_location, OptionStrings.help>>,
     <<Program, OptionStrings.help, <<"-", "-", "k", "e", "e", "p">>>>,
     Usual \o <<OptionStrings.help>>,
     Usual \o <<<<"-", "x">>>>,
     Usual \o <<<<"x">>, OptionStrings.help>>,
     Usual \o <<<<"x">>>>,
     Usual \o <<DoubleDash>>,
     Usual \o <<<<"-", "-", "k", "e", "e", "p", "-", "i">>, <<"a">>>>,
     Usual \o <<<<"-", "-", "o", "n", "l", "y", "=", "a">>>>,
     Usual \o <<OptionStrings.keep_image_pattern, <<"-", "1">>>>,
     Usual \o <<OptionStrings.keep_image_pattern, <<"-", ".", "5", "\n">>>>,
     Usual \o <<OptionStrings.keep_image_pattern, <<"-", "U+0663">>>>,
     Usual \o <<OptionStrings.keep_image_pattern, <<"-", "1", "a">>>>,
     Usual \o <<OptionStrings.keep_image_pattern, <<"-", " ", "a">>>>,
     Usual \o <<OptionStrings.keep_image_pattern, <<"-">>>>,
     Usual \o <<OptionStrings.repo_location, <<"x">>>>,
     Usual \o <<OptionStrings.repo_location \o <<"=">> \o DoubleDash>>,
     Usual \o <<OptionStrings.list_images_cmd \o <<"=">> \o DoubleDash>>,
     Usual \o <<OptionStrings.keep_from_branches \o <<"=">> \o DoubleDash>>,
     Usual \o <<OptionStrings.remove_dangling \o <<"=">> \o DoubleDash>>}

MainArgv == {CommandLine(r) : r \in MainOptions} \cup OtherArgv

MainInventories ==
    Inventories({<<>>, << <<"a">>, <<"a", "b">> >>}, {1}, 2)
        \cup {<< Image(1, << <<"a">> >>, Missing) >>}

\* The repository of a run that goes to a path that is no directory is not one
\* git can diff.
Worktrees(call_args) ==
    LET args_ == parse_args(NonEmptyArgs(call_args))
    IN  IF args_.exit \/ chdir(args_.ns.repo_location)
        THEN {"clean", "dirty", "broken"} ELSE {"broken"}

Init ==
    /\ argv \in MainArgv
    /\ worktree \in Worktrees(argv)
    /\ all_images \in MainInventories
    /\ args = NoArgs
    /\ pc = "parse"
    /\ tags_to_keep = {}
    /\ Blank

Next ==
    \/ ParseArgs
    \/ CheckDirty
    \/ CheckoutBranch
    \/ ReadImagesToKeep
    \/ FilterImages
    \/ EstimateTotalSize
    \/ Confirm
    \/ Interrupt
    \/ RemoveImage
    \/ Prune

Spec == Init /\ [][Next]_vars

-----------------------------------------------------------------------------
(* filter_images on its own: every configuration of the patterns, every      *)
(* keep-set and every image store of the bounds                              *)

FilterArgv ==
    {CommandLine([repo_location |-> Given(<<"r">>), list_images_cmd |-> Given(<<"c">>),
      keep_from_branches |-> Given(<<"m">>),
      keep_image_pattern |-> k,
      only_image_pattern |-> o, always_remove_pattern |-> a, remove_dangling |-> d]) :
        k \in PatternOptions, o \in PatternOptions, a \in PatternOptions,
        d \in DanglingOptions}

FilterInventories == Inventories(TagLists(TagUniverse, MaxTagsPerImage), {1}, MaxImages)
FilterKeepSets == SUBSET TagUniverse

InitFilter ==
    /\ argv \in FilterArgv
    /\ args = Args(parse_args(NonEmptyArgs(argv)).ns)
    /\ worktree = "clean"
    /\ all_images \in FilterInventories
    /\ pc = "filter"
    /\ tags_to_keep \in FilterKeepSets
    /\ Blank

NextFilter == FilterImages

SpecFilter == InitFilter /\ [][NextFilter]_vars

-----------------------------------------------------------------------------
(* estimate_total_size after filter_images: image stores with and without    *)
(* size metadata                                                             *)

SizeArgv ==
    {CommandLine([repo_location |-> Given(<<"r">>), list_images_cmd |-> Given(<<"c">>),
      keep_from_branches |-> Given(<<"m">>),
      keep_image_pattern |-> Absent,
      only_image_pattern |-> Absent, always_remove_pattern |-> a,
      remove_dangling |-> Absent]) : a \in {Absent, Given(<<"a">>)}}

InitSize ==
    /\ argv \in SizeArgv
    /\ args = Args(parse_args(NonEmptyArgs(argv)).ns)
    /\ worktree = "clean"
    /\ all_images \in Inventories(TagLists(TagUniverse, MaxTagsPerImage),
                                  {Missing} \cup 1..MaxSize, MaxImages)
    /\ pc = "filter"
    /\ tags_to_keep \in SUBSET {<<"b">>}
    /\ Blank

NextSize == FilterImages \/ EstimateTotalSize

SpecSize == InitSize /\ [][NextSize]_vars

-----------------------------------------------------------------------------
(* Properties *)

Stored == RangeOf(all_images)
Filtered == pc = "estimate"
AfterLoop == pc \in {"filter", "estimate", "confirm", "remove", "done"}

\* What the command line says for an option written out in full: the argument
\* after the option string, or what follows "=" in the argument that starts
\* with the option string.
Written(dest) ==
    LET name == OptionStrings[dest]
        apart == {k \in 2..(Len(argv) - 1) : argv[k] = name}
        joined == {k \in 2..Len(argv) :
                      /\ Len(argv[k]) > Len(name)
                      /\ argv[k][Len(name) + 1] = "="
                      /\ StartsWith(argv[k], name)}
    IN  IF apart # {} THEN Given(argv[(CHOOSE k \in apart : TRUE) + 1])
        ELSE IF joined # {}
        THEN LET arg == argv[CHOOSE k \in joined : TRUE]
             IN  GivenEq(SubSeq(arg, Len(name) + 2, Len(arg)))
        ELSE Absent

\* A pattern option is set when it is given with a pattern that is not empty.
IsSet(option) == option.given /\ option.val # <<>>
Matches(tag, option) == ReMatch(option.val, tag)

\* The priority list of the classification filter: TRUE for "remove".
TagRule(tag) ==
    LET keep == Written("keep_image_pattern")
        always == Written("always_remove_pattern")
        only == Written("only_image_pattern")
    IN  CASE IsSet(keep) /\ Matches(tag, keep) -> FALSE
          [] OTHER ->
        CASE IsSet(always) /\ Matches(tag, always) -> TRUE
          [] OTHER ->
        CASE IsSet(only) /\ ~Matches(tag, only) -> FALSE
          [] OTHER -> tag \notin tags_to_keep

\* The command line holds an argument that argparse reads as -h or --help.
HelpAsked ==
    \E k \in 2..Len(argv) :
        \/ StartsWith(argv[k], ShortHelp)
        \/ Len(argv[k]) > 2 /\ StartsWith(OptionStrings.help, argv[k])

\* C1, as stated: a run that starts on a dirty working tree never checks out
\* a branch, never runs the discovery command, never deletes and never prunes,
\* and it ends with a non-zero status, returned by main or left by its exit.
C1_DirtyNonZero ==
    worktree = "dirty" =>
        /\ checkouts = 0 /\ discoveries = 0
        /\ attempts = EmptyBag /\ removed = {} /\ pruned = 0
        /\ (pc \in Terminal => pc \in {"returned", "exited"} /\ status # 0)

\* C1, amended: a run that starts on a dirty working tree never checks out a
\* branch, never runs the discovery command, never deletes and never prunes;
\* once git diff has run main returns 1; the only other end is an exit of
\* argparse before git diff is run, with status 2, or with status 0 for a
\* command line that asks for help.
C1_DirtyAborts ==
    worktree = "dirty" =>
        /\ pc \in {"parse", "dirty_check", "returned", "exited"}
        /\ checkouts = 0 /\ discoveries = 0
        /\ attempts = EmptyBag /\ removed = {} /\ pruned = 0
        /\ (pc = "returned" => status = 1 /\ diffs = 1)
        /\ (diffs > 0 => pc = "returned")
        /\ (pc = "exited" => diffs = 0 /\ status \in {0, 2} /\ (status = 0 => HelpAsked))

C1_Witness == worktree = "dirty" /\ diffs = 1 /\ pc = "returned" /\ status = 1

\* C2: once a subprocess has exited with a non-zero status the run is over
\* (main raised or returned): no further subprocess is started, filter_images
\* is never called, nothing is deleted and nothing is pruned.
C2_FailureAborts ==
    failedAt # 0 =>
        /\ pc \in {"raised", "returned"}
        /\ Launched = failedAt
        /\ attempts = EmptyBag /\ removed = {} /\ pruned = 0

\* C3: client.images.remove and client.images.prune are called only after
\* input() has returned; a run whose prompt never returns deletes nothing.
C3_NoDeletionBeforePrompt ==
    (attempts # EmptyBag \/ removed # {} \/ pruned > 0) => confirmed

C3_Witness == confirmed /\ removed # {} /\ pruned = 1

\* C4: a tag of a tagged image is in tags_to_remove exactly when the first
\* matching rule of the priority list says remove; a tag that matches the keep
\* pattern is never removed, and a tag that matches the always-remove pattern
\* and not the keep pattern is always removed.
C4_PriorityRule ==
    Filtered =>
        \A image \in Stored : \A tag \in RangeOf(image.RepoTags) :
            /\ tag \in tags_to_remove <=> TagRule(tag)
            /\ (IsSet(Written("keep_image_pattern")) /\ Matches(tag, Written("keep_image_pattern")))
                  => tag \notin tags_to_remove
            /\ (/\ IsSet(Written("always_remove_pattern"))
                /\ Matches(tag, Written("always_remove_pattern"))
                /\ ~(IsSet(Written("keep_image_pattern"))
                        /\ Matches(tag, Written("keep_image_pattern"))))
                  => tag \in tags_to_remove

\* A tag that matches both patterns is kept, and a tag of the keep-set that
\* fails the only pattern is removed by the always-remove pattern.
C4_Witness ==
    /\ Filtered
    /\ IsSet(Written("keep_image_pattern")) /\ IsSet(Written("always_remove_pattern"))
    /\ IsSet(Written("only_image_pattern"))
    /\ \E image \in Stored : \E kept, gone \in RangeOf(image.RepoTags) :
          /\ Matches(kept, Written("keep_image_pattern"))
          /\ Matches(kept, Written("always_remove_pattern"))
          /\ kept \notin tags_to_remove
          /\ gone \in tags_to_keep
          /\ ~Matches(gone, Written("only_image_pattern"))
          /\ gone \in tags_to_remove

\* What the operator asked for with --remove-dangling: the default is true,
\* and the values False and "" ask for false.
RemoveDanglingAsked ==
    ~Written("remove_dangling").given
        \/ Written("remove_dangling").val \notin {<<>>, <<"F", "a", "l", "s", "e">>}

\* C5: an image without tags is in the removal sets, by its Id, if and only if
\* remove_dangling is true, also when false comes from the command line.
C5_DanglingIffAsked ==
    Filtered =>
        \A image \in Stored :
            image.RepoTags = <<>> =>
                /\ image \in images_to_remove <=> RemoveDanglingAsked
                /\ image.Id \in tags_to_remove <=> RemoveDanglingAsked

\* C6: when the loop over the branches is over, every branch was checked out
\* and listed once and tags_to_keep is the union of the lines printed on all
\* of them; a line printed on any branch protects its tag from the keep-set
\* rule.
C6_KeepSetIsUnion ==
    AfterLoop =>
        /\ checkouts = Len(branches) /\ discoveries = Len(branches)
        /\ tags_to_keep = printed
        /\ (pc # "filter") =>
              \A image \in Stored : \A tag \in RangeOf(image.RepoTags) :
                  tag \in printed /\ tag \in tags_to_remove
                      => /\ IsSet(Written("always_remove_pattern"))
                         /\ Matches(tag, Written("always_remove_pattern"))

\* Two branches, two printed lines, and a stored tag that one of them protects.
C6_Witness ==
    /\ pc = "estimate"
    /\ Len(branches) = 2
    /\ Cardinality(printed) >= 2
    /\ \E image \in Stored : \E tag \in RangeOf(image.RepoTags) :
          tag \in printed /\ tag \notin tags_to_remove
    /\ tags_to_remove # {}

\* C7: for an image with a tag the rules remove and a tag the rules keep, the
\* image is in images_to_remove, once, and the kept tag is not in
\* tags_to_remove.
C7_PerTag ==
    Filtered =>
        \A image \in Stored : \A gone, kept \in RangeOf(image.RepoTags) :
            TagRule(gone) /\ ~TagRule(kept) =>
                /\ image \in images_to_remove
                /\ Cardinality({x \in images_to_remove : x.Id = image.Id}) = 1
                /\ kept \notin tags_to_remove

\* One tag matches the keep pattern, another the always-remove pattern.
C7_Witness ==
    /\ Filtered
    /\ \E image \in Stored : \E gone, kept \in RangeOf(image.RepoTags) :
          /\ IsSet(Written("keep_image_pattern")) /\ Matches(kept, Written("keep_image_pattern"))
          /\ IsSet(Written("always_remove_pattern"))
          /\ Matches(gone, Written("always_remove_pattern"))
          /\ gone \in tags_to_remove
          /\ image \in images_to_remove

\* What holds of the loop of remove_images_by_tags and the prune whatever the
\* removals do: no tag is tried twice, a tag is removed or logged as failed
\* only when tried, and the prune runs at most once, after every try.
RemoveLoop ==
    /\ \A tag \in BagToSet(attempts) : tag \in tags_to_remove /\ CopiesIn(tag, attempts) = 1
    /\ removed \cup failed \subseteq BagToSet(attempts)
    /\ removed \cap failed = {}
    /\ pruned <= 1
    /\ pruned = 1 => \A tag \in tags_to_remove : CopiesIn(tag, attempts) = 1
    /\ confirmed /\ pc = "remove" => pending = tags_to_remove \ BagToSet(attempts)

\* C8: after confirmation every tag of the removal set is tried once, a
\* removal that failed never keeps the loop from the tags that remain, and
\* prune runs once, after all of them, for every combination of removals that
\* return and removals that fail with an Exception.
C8_EveryTagOnceThenPrune ==
    /\ RemoveLoop
    /\ confirmed /\ pc \in Terminal /\ BagToSet(attempts) = removed \cup failed
          => /\ pruned = 1
             /\ \A tag \in tags_to_remove : CopiesIn(tag, attempts) = 1

\* Two tags, one removal failed and one succeeded, and the prune ran.
C8_Witness ==
    /\ pc = "done" /\ pruned = 1
    /\ Cardinality(tags_to_remove) >= 2
    /\ removed # {} /\ failed # {}

RECURSIVE DeclaredTotal(_)
\* The declared sizes of the first k stored images that are to be removed, an
\* image without a size counting zero.
DeclaredTotal(k) ==
    IF k = 0 THEN 0
    ELSE DeclaredTotal(k - 1)
            + (IF all_images[k] \in images_to_remove /\ all_images[k].HasSize
               THEN all_images[k].Size ELSE 0)

\* C9: estimate_total_size returns the sum of the declared sizes of the images
\* to remove, each image once, an image without size metadata counting zero
\* and not making it fail.
C9_SumMissingAsZero ==
    pc \in {"confirm", "raised"} =>
        pc = "confirm" /\ size_estimate = DeclaredTotal(Len(all_images))

\* C10: an image is in images_to_remove if and only if it is dangling with its
\* Id in tags_to_remove or one of its tags is in tags_to_remove, and every
\* element of tags_to_remove is a tag or the Id of a stored image.
C10_OutputsConsistent ==
    Filtered =>
        /\ images_to_remove \subseteq Stored
        /\ \A image \in Stored :
              image \in images_to_remove <=>
                  \/ image.RepoTags = <<>> /\ image.Id \in tags_to_remove
                  \/ \E tag \in RangeOf(image.RepoTags) : tag \in tags_to_remove
        /\ \A tag \in tags_to_remove :
              \E image \in Stored : tag = image.Id \/ tag \in RangeOf(image.RepoTags)

\* A dangling image to be removed beside an image that goes with one of its
\* tags and not the other.
C10_Witness ==
    /\ Filtered
    /\ \E image \in images_to_remove : image.RepoTags = <<>>
    /\ \E image \in images_to_remove : \E gone, kept \in RangeOf(image.RepoTags) :
          gone \in tags_to_remove /\ kept \notin tags_to_remove

====
